---- MODULE Spec2Model ----
(***************************************************************************)
(* quick-stats: state machine of src/main.rs.                              *)
(*                                                                         *)
(* One run of main is modelled block by block: the cpu block, the gpu      *)
(* block, the battery block, the network block, the rendering of the       *)
(* output in the chosen format and the writing of the output.  The         *)
(* collaborators that live in the modules benchmark and info (declared at  *)
(* main.rs:1-3, not part of the source at hand) are modelled by the data   *)
(* they hand to main.                                                      *)
(*                                                                         *)
(* Option<T> is modelled as a sequence: None is <<>>, Some(v) is <<v>>.    *)
(***************************************************************************)
EXTENDS Integers, Sequences, FiniteSets, TLC

VARIABLES
    features,         \* the -e/--features values (main.rs:21)
    output_format,    \* the -f/--format value    (main.rs:19)
    preserve_order,   \* build: serde_json objects keep insertion order, or sort keys
    host,             \* the facts get_cpu_info() reports for this host
    gpu_count,        \* how many devices get_gpu_info() enumerates on this host
    broken,           \* indexed devices that cannot execute the workload
    cpu_info,         \* main.rs:23
    cpu_gflops,       \* main.rs:24
    cpu_elapsed_time, \* main.rs:25
    battery_info,     \* main.rs:26
    gpu_results,      \* main.rs:27
    ping,             \* main.rs:28
    public_ip,        \* main.rs:29
    internet_speed,   \* main.rs:30
    supports_mps,     \* main.rs:41, None until the gpu block has run
    render_mps,       \* main.rs:222-224, the renderer's Option<bool>
    calls,            \* every sampler invocation so far, in order
    battery_queries,  \* number of get_battery_info() calls so far
    attempted,        \* network probes attempted so far
    output,           \* the rendered output, a sequence of section items
    sink,             \* where the output went: "none", "stdout" or "file"
    pc                \* position in main

vars == <<features, output_format, preserve_order, host, gpu_count, broken,
          cpu_info, cpu_gflops, cpu_elapsed_time, battery_info, gpu_results,
          ping, public_ip, internet_speed, supports_mps, render_mps, calls,
          battery_queries, attempted, output, sink, pc>>

\* ---------------------------------------------------------------- bounds

\* Largest number of devices GPU enumeration returns.
MaxGpus == 3

\* ---------------------------------------------------------------- constants

\* benchmark_cpu(5)
CpuIterations == 5

\* benchmark_gpu(device, 1000)
GpuSize == 1000

\* ---------------------------------------------------------------- values

None == <<>>

Some(v) == <<v>>

unwrap_or(opt, default) == IF opt = None THEN default ELSE opt[1]

Cpu == [kind |-> "Cpu", index |-> 0]

Mps == [kind |-> "Mps", index |-> 0]

Cuda(i) == [kind |-> "Cuda", index |-> i]

AllFeatures == {"cpu", "gpu", "battery", "network"}

Formats == {"plain", "json"}

Archs == {None, Some("arm64"), Some("x86_64")}

Oses == {"macos", "linux"}

\* 0.0, the default of cpu_gflops.unwrap_or(0.0)
ZeroSample == [device |-> Cpu, call |-> 0, arg |-> 0, valid |-> FALSE]

\* ---------------------------------------------------------------- collaborators

\* info::cpu::get_cpu_info(): the static facts of the host.
get_cpu_info == [os |-> host.os, arch |-> host.arch]

\* info::gpu::get_gpu_info(): one GpuInfo per enumerated device, indices
\* dense, zero-based, in enumeration order.
get_gpu_info ==
    [i \in 1..gpu_count |->
        [device_id |-> i - 1, device |-> Cuda(i - 1), name |-> Some("gpu")]]

\* benchmark::cpu::benchmark_cpu(iterations): returns (gflops, elapsed); the
\* pair is modelled as one sample, identified by its position in the call log.
benchmark_cpu(iterations, log) ==
    [calls  |-> Append(log, Cpu),
     sample |-> [device |-> Cpu, call |-> Len(log) + 1, arg |-> iterations,
                 valid |-> TRUE]]

\* benchmark::gpu::benchmark_gpu(device, size): returns (tflops, elapsed), a
\* plain pair with no error channel.  On a device that cannot execute the
\* workload the call either does not return (panics) or returns a pair that
\* measures nothing.
benchmark_gpu(device, size, log, panics) ==
    LET fails == device.kind = "Cuda" /\ device.index \in broken
    IN  [calls    |-> Append(log, device),
         panicked |-> fails /\ panics,
         sample   |-> [device |-> device, call |-> Len(log) + 1, arg |-> size,
                       valid |-> ~fails]]

\* ---------------------------------------------------------------- main: gpu

\* main.rs:41-43
select_mps(info_opt) ==
    IF info_opt = None THEN FALSE
    ELSE info_opt[1].arch = Some("arm64") /\ info_opt[1].os = "macos"

\* main.rs:320-327
benchmark_mps_gpu(log, panics) ==
    LET r == benchmark_gpu(Mps, GpuSize, log, panics)
    IN  [calls    |-> r.calls,
         panicked |-> r.panicked,
         results  |-> << [device |-> Mps, label |-> "MPS", sample |-> r.sample] >>]

\* main.rs:333-345, the loop from position index on
RECURSIVE cuda_loop(_, _, _, _, _)
cuda_loop(gpu_infos, index, results, log, panics) ==
    IF index > Len(gpu_infos)
    THEN [calls |-> log, panicked |-> FALSE, results |-> results]
    ELSE LET info == gpu_infos[index]
             r    == benchmark_gpu(Cuda(index - 1), GpuSize, log, panics)
         IN  IF r.panicked
             THEN [calls |-> r.calls, panicked |-> TRUE, results |-> results]
             ELSE cuda_loop(gpu_infos, index + 1,
                            Append(results,
                                   [device_id |-> info.device_id,
                                    device    |-> info.device,
                                    name      |-> unwrap_or(info.name, "Not available"),
                                    sample    |-> r.sample]),
                            r.calls, panics)

\* main.rs:329-348
benchmark_cuda_gpus(log, panics) == cuda_loop(get_gpu_info, 1, <<>>, log, panics)

TypeOK ==
    /\ features \subseteq AllFeatures
    /\ output_format \in Formats
    /\ preserve_order \in BOOLEAN
    /\ gpu_count \in 0..MaxGpus
    /\ broken \subseteq 0..(gpu_count - 1)
    /\ pc \in {"cpu", "gpu", "battery", "network", "render", "write", "done", "aborted"}

Init ==
    /\ features \in SUBSET AllFeatures
    /\ output_format \in Formats
    /\ preserve_order \in BOOLEAN
    /\ host \in [os : Oses, arch : Archs]
    /\ gpu_count \in 0..MaxGpus
    /\ broken \in {b \in SUBSET (0..(gpu_count - 1)) : Cardinality(b) <= 1}
    /\ cpu_info = None
    /\ cpu_gflops = None
    /\ cpu_elapsed_time = None
    /\ battery_info = None
    /\ gpu_results = None
    /\ ping = None
    /\ public_ip = None
    /\ internet_speed = None
    /\ supports_mps = None
    /\ render_mps = None
    /\ calls = <<>>
    /\ battery_queries = 0
    /\ attempted = {}
    /\ output = <<>>
    /\ sink = "none"
    /\ pc = "cpu"

\* main.rs:32-38
CpuBlock ==
    /\ pc = "cpu"
    /\ pc' = "gpu"
    /\ IF "cpu" \in features
       THEN LET r == benchmark_cpu(CpuIterations, calls)
            IN  /\ cpu_info' = Some(get_cpu_info)
                /\ cpu_gflops' = Some(r.sample)
                /\ cpu_elapsed_time' = Some(r.sample)
                /\ calls' = r.calls
       ELSE UNCHANGED <<cpu_info, cpu_gflops, cpu_elapsed_time, calls>>
    /\ UNCHANGED <<features, output_format, preserve_order, host, gpu_count,
                   broken, battery_info, gpu_results, ping, public_ip,
                   internet_speed, supports_mps, render_mps, battery_queries,
                   attempted, output, sink>>

\* main.rs:40-49
GpuBlock ==
    /\ pc = "gpu"
    /\ IF "gpu" \in features
       THEN \E panics \in BOOLEAN :
              LET mps == select_mps(cpu_info)
                  r   == IF mps THEN benchmark_mps_gpu(calls, panics)
                                ELSE benchmark_cuda_gpus(calls, panics)
              IN  /\ supports_mps' = Some(mps)
                  /\ calls' = r.calls
                  /\ IF r.panicked
                     THEN pc' = "aborted" /\ UNCHANGED gpu_results
                     ELSE pc' = "battery" /\ gpu_results' = Some(r.results)
       ELSE /\ pc' = "battery"
            /\ UNCHANGED <<supports_mps, calls, gpu_results>>
    /\ UNCHANGED <<features, output_format, preserve_order, host, gpu_count,
                   broken, cpu_info, cpu_gflops, cpu_elapsed_time, battery_info,
                   ping, public_ip, internet_speed, render_mps, battery_queries,
                   attempted, output, sink>>

\* main.rs:51-53
BatteryBlock ==
    /\ pc = "battery"
    /\ pc' = "network"
    /\ IF "battery" \in features
       THEN \E has_battery \in BOOLEAN :
              /\ battery_info' = Some([has_battery |-> has_battery])
              /\ battery_queries' = battery_queries + 1
       ELSE UNCHANGED <<battery_info, battery_queries>>
    /\ UNCHANGED <<features, output_format, preserve_order, host, gpu_count,
                   broken, cpu_info, cpu_gflops, cpu_elapsed_time, gpu_results,
                   ping, public_ip, internet_speed, supports_mps, render_mps,
                   calls, attempted, output, sink>>

\* ---------------------------------------------------------------- main: network

\* A network block in which a failed ping skips the two later probes.
network_probes_short_circuit(ping_ok, rt_ok, ip_ok, speed_ok) ==
    [ping           |-> IF ping_ok THEN Some("ping") ELSE None,
     public_ip      |-> IF ping_ok /\ rt_ok /\ ip_ok THEN Some("ip") ELSE None,
     internet_speed |-> IF ping_ok /\ rt_ok /\ speed_ok THEN Some("speed") ELSE None,
     attempted      |-> IF ping_ok /\ rt_ok THEN {"ping_ms", "public_ip", "speed"}
                                            ELSE {"ping_ms"},
     err            |-> ~rt_ok]

\* main.rs:56-61: get_ping().ok(), Runtime::new()?, then the two probes that
\* need the runtime, each turned into an Option by .ok().
network_probes(ping_ok, rt_ok, ip_ok, speed_ok) ==
    [ping           |-> IF ping_ok THEN Some("ping") ELSE None,
     public_ip      |-> IF rt_ok /\ ip_ok THEN Some("ip") ELSE None,
     internet_speed |-> IF rt_ok /\ speed_ok THEN Some("speed") ELSE None,
     attempted      |-> IF rt_ok THEN {"ping_ms", "public_ip", "speed"}
                                 ELSE {"ping_ms"},
     err            |-> ~rt_ok]

\* main.rs:55-62
NetworkBlock ==
    /\ pc = "network"
    /\ IF "network" \in features
       THEN \E ping_ok, rt_ok, ip_ok, speed_ok \in BOOLEAN :
              LET r == network_probes(ping_ok, rt_ok, ip_ok, speed_ok)
              IN  /\ ping' = r.ping
                  /\ public_ip' = r.public_ip
                  /\ internet_speed' = r.internet_speed
                  /\ attempted' = r.attempted
                  /\ pc' = IF r.err THEN "aborted" ELSE "render"
       ELSE /\ pc' = "render"
            /\ UNCHANGED <<ping, public_ip, internet_speed, attempted>>
    /\ UNCHANGED <<features, output_format, preserve_order, host, gpu_count,
                   broken, cpu_info, cpu_gflops, cpu_elapsed_time, battery_info,
                   gpu_results, supports_mps, render_mps, calls,
                   battery_queries, output, sink>>

\* ---------------------------------------------------------------- rendering

\* One top-level key of the JSON document, or one block of the plain text.
Item(section, entries, fields) ==
    [section |-> section, entries |-> entries, fields |-> fields]

with_key(obj, key) == SelectSeq(obj, LAMBDA it : it.section = key)

\* serde_json::to_string_pretty (main.rs:192): the keys of an object come out
\* in insertion order when the map preserves order, and sorted otherwise.
to_string_pretty(obj) ==
    IF preserve_order THEN obj
    ELSE with_key(obj, "battery") \o with_key(obj, "cpu") \o with_key(obj, "general")
         \o with_key(obj, "gpu") \o with_key(obj, "memory") \o with_key(obj, "network")

\* main.rs:170-185: the sub-fields of the network object.
network_fields ==
    (IF ping # None THEN {"ping_ms"} ELSE {})
    \cup (IF public_ip # None THEN {"public_ip"} ELSE {})
    \cup (IF internet_speed # None THEN {"speed"} ELSE {})

\* main.rs:120-193
generate_json_output ==
    LET c == IF cpu_info # None
             THEN << Item("general", <<>>, {"os", "os_version"}),
                     Item("memory", <<>>, {"total_memory_mb", "used_memory_mb",
                                           "total_swap_mb", "used_swap_mb"}),
                     Item("cpu",
                          << [unit   |-> "GFLOPS",
                              sample |-> unwrap_or(cpu_gflops, ZeroSample)] >>,
                          {"arch", "cpu_count", "gflops",
                           "benchmark_duration_seconds"}) >>
             ELSE <<>>
        g == IF gpu_results # None
             THEN << Item("gpu", gpu_results[1], {}) >>
             ELSE <<>>
        b == IF battery_info # None
             THEN << Item("battery", <<>>, {"has_battery", "charge_percent",
                                            "is_charging", "wh_capacity"}) >>
             ELSE <<>>
        n == IF network_fields # {}
             THEN << Item("network", <<>>, network_fields) >>
             ELSE <<>>
    IN  to_string_pretty(c \o g \o b \o n)

\* main.rs:350-359
format_mps_gpu_info(log, panics) ==
    LET r == benchmark_gpu(Mps, GpuSize, log, panics)
    IN  [calls    |-> r.calls,
         panicked |-> r.panicked,
         text     |-> << Item("gpu",
                              << [device |-> Mps, label |-> "integrated (MPS)",
                                  sample |-> r.sample] >>,
                              {}) >>]

\* main.rs:365-385, the loop from position index on
RECURSIVE format_cuda_loop(_, _, _, _, _)
format_cuda_loop(gpu_infos, index, text, log, panics) ==
    IF index > Len(gpu_infos)
    THEN [calls |-> log, panicked |-> FALSE, text |-> text]
    ELSE LET info == gpu_infos[index]
             r    == benchmark_gpu(Cuda(index - 1), GpuSize, log, panics)
         IN  IF r.panicked
             THEN [calls |-> r.calls, panicked |-> TRUE, text |-> text]
             ELSE format_cuda_loop(gpu_infos, index + 1,
                                   Append(text,
                                          Item("gpu",
                                               << [device_id |-> info.device_id,
                                                   device    |-> info.device,
                                                   name      |-> unwrap_or(info.name, "Not available"),
                                                   sample    |-> r.sample] >>,
                                               {})),
                                   r.calls, panics)

\* main.rs:361-388: one block per enumerated device, no heading of its own.
format_cuda_gpus_info(log, panics) ==
    format_cuda_loop(get_gpu_info, 1, <<>>, log, panics)

\* A renderer that picks the GPU format from cpu_info alone, without looking
\* at gpu_results.
plain_gpu_section_unguarded(log, panics) ==
    LET r == IF cpu_info = None
             THEN [calls |-> log, panicked |-> FALSE, text |-> <<>>]
             ELSE IF select_mps(cpu_info) THEN format_mps_gpu_info(log, panics)
                                          ELSE format_cuda_gpus_info(log, panics)
    IN  [calls |-> r.calls, panicked |-> r.panicked, text |-> r.text,
         mps   |-> IF cpu_info = None THEN None ELSE Some(select_mps(cpu_info))]

\* main.rs:221-232
plain_gpu_section(log, panics) ==
    LET sel == IF gpu_results # None /\ cpu_info # None
               THEN Some(cpu_info[1].arch = Some("arm64") /\ cpu_info[1].os = "macos")
               ELSE None
        r   == IF sel = None
               THEN [calls |-> log, panicked |-> FALSE, text |-> <<>>]
               ELSE IF sel[1] THEN format_mps_gpu_info(log, panics)
                              ELSE format_cuda_gpus_info(log, panics)
    IN  [calls |-> r.calls, panicked |-> r.panicked, text |-> r.text, mps |-> sel]

\* main.rs:195-250
generate_plain_output(log, panics) ==
    LET c == IF cpu_info # None
             THEN << Item("general", <<>>, {"os", "os_version"}),
                     Item("cpu",
                          << [unit   |-> "GFLOPS",
                              sample |-> unwrap_or(cpu_gflops, ZeroSample)] >>,
                          {"arch", "cpu_count", "gflops",
                           "benchmark_duration_seconds"}),
                     Item("memory", <<>>, {"total_memory_mb", "used_memory_mb",
                                           "total_swap_mb", "used_swap_mb"}) >>
             ELSE <<>>
        g == plain_gpu_section(log, panics)
        b == IF battery_info # None
             THEN << Item("battery", <<>>, {"has_battery", "charge_percent",
                                            "is_charging", "wh_capacity"}) >>
             ELSE <<>>
        p == IF ping # None THEN << Item("network", <<>>, {"ping_ms"}) >> ELSE <<>>
        i == IF public_ip # None THEN << Item("network", <<>>, {"public_ip"}) >> ELSE <<>>
        s == IF internet_speed # None THEN << Item("network", <<>>, {"speed"}) >> ELSE <<>>
    IN  [calls |-> g.calls, panicked |-> g.panicked, mps |-> g.mps,
         text  |-> c \o g.text \o b \o p \o i \o s]

\* main.rs:64-85
Render ==
    /\ pc = "render"
    /\ \E panics \in BOOLEAN :
         LET r == IF output_format = "json"
                  THEN [calls |-> calls, panicked |-> FALSE, mps |-> None,
                        text  |-> generate_json_output]
                  ELSE generate_plain_output(calls, panics)
         IN  /\ calls' = r.calls
             /\ render_mps' = r.mps
             /\ IF r.panicked
                THEN pc' = "aborted" /\ UNCHANGED output
                ELSE pc' = "write" /\ output' = r.text
    /\ UNCHANGED <<features, output_format, preserve_order, host, gpu_count,
                   broken, cpu_info, cpu_gflops, cpu_elapsed_time, battery_info,
                   gpu_results, ping, public_ip, internet_speed, supports_mps,
                   battery_queries, attempted, sink>>

\* main.rs:87 and write_output, main.rs:389-397
WriteOutput ==
    /\ pc = "write"
    /\ \E output_file \in {None, Some("path")}, create_ok \in BOOLEAN :
         IF output_file = None
         THEN sink' = "stdout" /\ pc' = "done"
         ELSE IF create_ok THEN sink' = "file" /\ pc' = "done"
                           ELSE sink' = "none" /\ pc' = "aborted"
    /\ UNCHANGED <<features, output_format, preserve_order, host, gpu_count,
                   broken, cpu_info, cpu_gflops, cpu_elapsed_time, battery_info,
                   gpu_results, ping, public_ip, internet_speed, supports_mps,
                   render_mps, calls, battery_queries, attempted, output>>

Next ==
    \/ CpuBlock
    \/ GpuBlock
    \/ BatteryBlock
    \/ NetworkBlock
    \/ Render
    \/ WriteOutput

Spec == Init /\ [][Next]_vars

\* ---------------------------------------------------------------- properties

\* The output has been rendered (main.rs:64-85 returned a string).
Rendered == pc \in {"write", "done"}

Sections(out) == {out[i].section : i \in DOMAIN out}

RECURSIVE EntriesOf(_, _)
EntriesOf(out, section) ==
    IF out = <<>> THEN <<>>
    ELSE (IF Head(out).section = section THEN Head(out).entries ELSE <<>>)
         \o EntriesOf(Tail(out), section)

FieldsOf(out, section) ==
    UNION {out[i].fields : i \in {j \in DOMAIN out : out[j].section = section}}

CallsOn(device) == Cardinality({i \in DOMAIN calls : calls[i] = device})

HostIsAppleSilicon == host.arch = Some("arm64") /\ host.os = "macos"

SectionRank(section) ==
    CASE section = "general" -> 1
      [] section = "memory"  -> 2
      [] section = "cpu"     -> 3
      [] section = "gpu"     -> 4
      [] section = "battery" -> 5
      [] section = "network" -> 6

\* C1: on an arm64 macos host a run that requests only gpu renders a GPU
\* section with exactly one entry, whose device is the unified GPU (MPS),
\* whatever GPU enumeration returns.
C1_GpuOnlyOnAppleSiliconIsMps ==
    (HostIsAppleSilicon /\ features = {"gpu"} /\ Rendered)
        => /\ "gpu" \in Sections(output)
           /\ Len(EntriesOf(output, "gpu")) = 1
           /\ EntriesOf(output, "gpu")[1].device = Mps

\* C2: the backend selection of main is the unified path exactly when the
\* host is arm64 macos and the indexed path otherwise, and the selection the
\* plain-text renderer makes again is the same one.
C2_SelectionFollowsHostAndAgrees ==
    /\ supports_mps # None => (supports_mps[1] <=> HostIsAppleSilicon)
    /\ (Rendered /\ output_format = "plain" /\ supports_mps # None)
           => render_mps = supports_mps

\* C3: on the indexed path, when one device cannot be benchmarked the run
\* goes on and the GPU results hold the entries of exactly the other
\* devices, in enumeration order.
C3_FailedDeviceOnlyDropsItsEntry ==
    (supports_mps = Some(FALSE) /\ broken # {})
        => /\ gpu_results # None
           /\ Len(gpu_results[1]) = gpu_count - 1
           /\ \A i \in DOMAIN gpu_results[1] :
                /\ gpu_results[1][i].device_id \notin broken
                /\ \A j \in DOMAIN gpu_results[1] :
                     i < j => gpu_results[1][i].device_id < gpu_results[1][j].device_id

\* C4: gpu requested, indexed path, zero devices enumerated: the rendered
\* report has a GPU section that is an empty sequence (so it differs from a
\* report of a run that did not request gpu), and no GPU sample was taken.
C4_ZeroDevicesGivesEmptyGpuSection ==
    ("gpu" \in features /\ supports_mps = Some(FALSE) /\ gpu_count = 0 /\ Rendered)
        => /\ "gpu" \in Sections(output)
           /\ EntriesOf(output, "gpu") = <<>>
           /\ \A i \in DOMAIN calls : calls[i] = Cpu

\* C5: a run that requests only cpu renders the CPU section with its
\* throughput in GFLOPS and no gpu, battery or network section, and makes no
\* GPU benchmark, battery query or network probe.
C5_CpuOnlyReport ==
    (features = {"cpu"} /\ Rendered)
        => /\ "cpu" \in Sections(output)
           /\ Len(EntriesOf(output, "cpu")) = 1
           /\ EntriesOf(output, "cpu")[1].unit = "GFLOPS"
           /\ EntriesOf(output, "cpu")[1].sample = cpu_gflops[1]
           /\ Sections(output) \cap {"gpu", "battery", "network"} = {}
           /\ calls = << Cpu >>
           /\ battery_queries = 0
           /\ attempted = {}

\* A finished cpu-only run whose output carries the CPU section.
C5_Witness ==
    /\ features = {"cpu"}
    /\ pc = "done"
    /\ "cpu" \in Sections(output)
    /\ gpu_count > 0

\* C6: in both renderings the sections come out in the order general,
\* memory, cpu, gpu, battery, network.
C6_SectionOrderIsFixed ==
    Rendered =>
        \A i, j \in DOMAIN output :
            i < j => SectionRank(output[i].section) <= SectionRank(output[j].section)

\* C7: with gpu requested, in either format, the sampler has run exactly
\* once per GPU device, and the GPU figures in the output are the samples
\* main took.
C7_OneSamplePerGpuDevice ==
    ("gpu" \in features /\ Rendered)
        => /\ IF supports_mps = Some(TRUE)
              THEN CallsOn(Mps) = 1
              ELSE \A i \in 0..(gpu_count - 1) : CallsOn(Cuda(i)) = 1
           /\ \A i \in DOMAIN EntriesOf(output, "gpu") :
                \E k \in DOMAIN gpu_results[1] :
                    EntriesOf(output, "gpu")[i].sample = gpu_results[1][k].sample

C9_SectionsAreIndependent ==
    Rendered =>
        /\ "cpu" \in Sections(output) <=> "cpu" \in features
        /\ "gpu" \in Sections(output) <=> "gpu" \in features
        /\ "battery" \in Sections(output) <=> "battery" \in features
        /\ "network" \in Sections(output)
               <=> /\ "network" \in features
                   /\ ping # None \/ public_ip # None \/ internet_speed # None

\* C10: on the indexed path the rendered GPU section has one entry per
\* enumerated device, in enumeration order, and entry i carries the facts of
\* device i with the sample run on IndexedGpu(i).
C10_EntriesMatchEnumeration ==
    (supports_mps = Some(FALSE) /\ Rendered)
        => /\ Len(EntriesOf(output, "gpu")) = gpu_count
           /\ \A i \in DOMAIN EntriesOf(output, "gpu") :
                /\ EntriesOf(output, "gpu")[i].device_id = i - 1
                /\ EntriesOf(output, "gpu")[i].device = Cuda(i - 1)
                /\ EntriesOf(output, "gpu")[i].sample.device = Cuda(i - 1)

====
